---------------------------- MODULE Spec2Model ----------------------------
(***************************************************************************)
(* Model of src/main.py: the get_tracking tool of the eshipz tracking      *)
(* server.  One invocation posts one request (make_nws_request), and the   *)
(* parsed body, or None on any failure, is turned into one string by       *)
(* get_tracking and _create_summary.                                       *)
(*                                                                         *)
(* Python values are records [t |-> type, v |-> payload]: t is one of      *)
(* "NoneType", "bool", "int", "str", "list", "dict" (the Python type the   *)
(* JSON decoder produces), and v is a BOOLEAN, an integer, a string, a     *)
(* sequence of values, or a function from keys to values.                  *)
(***************************************************************************)
EXTENDS Integers, Sequences, FiniteSets, TLC

VARIABLES pc, tracking_number, outcome, data, shipment, summary, exc,
          result, requests, ran

vars == <<pc, tracking_number, outcome, data, shipment, summary, exc,
          result, requests, ran>>

-----------------------------------------------------------------------------
(* Bounds of the model.                                                    *)

\* longest checkpoints list of a shipment record
MaxCheckpoints == 2
\* longest list of shipment records in a response body
MaxShipments == 2

-----------------------------------------------------------------------------
(* Python values.                                                          *)

None == [t |-> "NoneType", v |-> <<>>]
PyBool(b) == [t |-> "bool", v |-> b]
PyInt(n) == [t |-> "int", v |-> n]
PyStr(s) == [t |-> "str", v |-> s]
PyList(q) == [t |-> "list", v |-> q]
PyDict(f) == [t |-> "dict", v |-> f]

\* the empty dict {}
EmptyDict == PyDict(<<>>)

\* bool(x): the truth value Python gives a decoded JSON value
Truthy(x) ==
    CASE x.t = "NoneType" -> FALSE
      [] x.t = "bool" -> x.v
      [] x.t = "int" -> x.v # 0
      [] x.t = "str" -> x.v # ""
      [] x.t = "list" -> x.v # <<>>
      [] x.t = "dict" -> DOMAIN x.v # {}

\* the outcome of evaluating an expression: a value, or a raised exception
\* carrying str(e)
Ok(x) == [raised |-> FALSE, val |-> x]
Raise(msg) == [raised |-> TRUE, val |-> msg]

\* str(e) of the AttributeError for x.attr on a value without that attribute
NoAttribute(x, attr) ==
    "'" \o x.t \o "' object has no attribute '" \o attr \o "'"

\* str(n) for a natural number
Digit(d) ==
    CASE d = 0 -> "0" [] d = 1 -> "1" [] d = 2 -> "2" [] d = 3 -> "3"
      [] d = 4 -> "4" [] d = 5 -> "5" [] d = 6 -> "6" [] d = 7 -> "7"
      [] d = 8 -> "8" [] d = 9 -> "9"
RECURSIVE NatStr(_)
NatStr(n) == IF n < 10 THEN Digit(n) ELSE NatStr(n \div 10) \o Digit(n % 10)

\* format(x, ""), what an f-string writes for {x}, for the scalar values
Format(x) ==
    CASE x.t = "NoneType" -> "None"
      [] x.t = "bool" -> IF x.v THEN "True" ELSE "False"
      [] x.t = "int" -> NatStr(x.v)
      [] x.t = "str" -> x.v

\* d.get(key, default); only a dict has the method
Get(d, key, default) ==
    IF d.t # "dict" THEN Raise(NoAttribute(d, "get"))
    ELSE IF key \in DOMAIN d.v THEN Ok(d.v[key]) ELSE Ok(default)

\* x[0]
Index0(x) ==
    CASE x.t = "list" ->
           IF x.v = <<>> THEN Raise("list index out of range") ELSE Ok(x.v[1])
      [] x.t = "str" ->
           IF x.v = "" THEN Raise("string index out of range")
           ELSE Ok(PyStr(SubSeq(x.v, 1, 1)))
      [] x.t = "dict" -> Raise("0")
      [] OTHER -> Raise("'" \o x.t \o "' object is not subscriptable")

\* len(x)
PyLen(x) ==
    CASE x.t = "list" -> Ok(Len(x.v))
      [] x.t = "str" -> Ok(Len(x.v))
      [] x.t = "dict" -> Ok(Cardinality(DOMAIN x.v))
      [] OTHER -> Raise("object of type '" \o x.t \o "' has no len()")

\* str.upper() on the characters the carrier slugs are written in
UpperChar(c) ==
    CASE c = "a" -> "A" [] c = "b" -> "B" [] c = "c" -> "C" [] c = "d" -> "D"
      [] c = "e" -> "E" [] c = "f" -> "F" [] c = "g" -> "G" [] c = "h" -> "H"
      [] c = "i" -> "I" [] c = "j" -> "J" [] c = "k" -> "K" [] c = "l" -> "L"
      [] c = "m" -> "M" [] c = "n" -> "N" [] c = "o" -> "O" [] c = "p" -> "P"
      [] c = "q" -> "Q" [] c = "r" -> "R" [] c = "s" -> "S" [] c = "t" -> "T"
      [] c = "u" -> "U" [] c = "v" -> "V" [] c = "w" -> "W" [] c = "x" -> "X"
      [] c = "y" -> "Y" [] c = "z" -> "Z" [] OTHER -> c
RECURSIVE Upper(_)
Upper(s) ==
    IF s = "" THEN ""
    ELSE UpperChar(SubSeq(s, 1, 1)) \o Upper(SubSeq(s, 2, Len(s)))

-----------------------------------------------------------------------------
(* The program: make_nws_request, _format_carrier, _create_summary and the *)
(* body of get_tracking, as operators on Python values.                    *)

\* the causes for which the request ends in the except clause
FailureCauses == {"network error", "timeout", "non-2xx status", "unparsable body"}

\* a variant of the except clause that asks the provider again
on_request_error_retry(cause) == [pc |-> "request", data |-> None]

\* make_nws_request's except clause: every failure becomes None, once
on_request_error(cause) == [pc |-> "resolved", data |-> None]

\* a variant of _format_carrier that leaves the slug as written
_format_carrier_raw(slug) ==
    IF Truthy(slug)
    THEN IF slug.t = "str" THEN Ok(slug.v)
         ELSE Raise(NoAttribute(slug, "upper"))
    ELSE Ok("Unknown Carrier")

_format_carrier(slug) ==
    IF Truthy(slug)
    THEN IF slug.t = "str" THEN Ok(Upper(slug.v))
         ELSE Raise(NoAttribute(slug, "upper"))
    ELSE Ok("Unknown Carrier")

\* status == "<literal>"
Is(status, literal) == status.t = "str" /\ status.v = literal

delivered(carrier, delivery_date, location) ==
    " Delivered via " \o carrier
      \o (IF Truthy(delivery_date) THEN " on " \o Format(delivery_date) ELSE "")
      \o (IF Truthy(location) THEN " at " \o Format(location) ELSE "")

out_for_delivery(carrier, location) ==
    " Out for delivery via " \o carrier
      \o (IF Truthy(location) THEN " from " \o Format(location) ELSE "")

\* a variant of the InTransit branch that writes the remark before the city
in_transit_remark_first(carrier, location, remark, eta) ==
    "In transit via " \o carrier
      \o (IF Truthy(remark) THEN " - " \o Format(remark) ELSE "")
      \o (IF Truthy(location) THEN ", currently in " \o Format(location) ELSE "")
      \o (IF Truthy(eta) THEN "\n   Expected delivery: " \o Format(eta) ELSE "")

in_transit(carrier, location, remark, eta) ==
    "In transit via " \o carrier
      \o (IF Truthy(location) THEN ", currently in " \o Format(location) ELSE "")
      \o (IF Truthy(remark) THEN " - " \o Format(remark) ELSE "")
      \o (IF Truthy(eta) THEN "\n   Expected delivery: " \o Format(eta) ELSE "")

exception(carrier, location, remark) ==
    "Exception via " \o carrier
      \o (IF Truthy(location) THEN " at " \o Format(location) ELSE "")
      \o (IF Truthy(remark) THEN " - " \o Format(remark) ELSE "")

picked_up(carrier, location) ==
    "Picked up via " \o carrier
      \o (IF Truthy(location) THEN " from " \o Format(location) ELSE "")

info_received(carrier) == "Shipment information received by " \o carrier

\* a variant of the else branch that tests the city alone before writing
\* the remark and the city
other_status_city_alone(status, tracking_num, carrier, location, remark) ==
    (IF Truthy(status) THEN Format(status) \o " via " \o carrier
     ELSE "Tracking " \o Format(tracking_num) \o " via " \o carrier)
      \o (IF Truthy(location)
          THEN " - " \o Format(remark) \o " (" \o Format(location) \o ")"
          ELSE IF Truthy(remark) THEN " - " \o Format(remark) ELSE "")

other_status(status, tracking_num, carrier, location, remark) ==
    (IF Truthy(status) THEN Format(status) \o " via " \o carrier
     ELSE "Tracking " \o Format(tracking_num) \o " via " \o carrier)
      \o (IF Truthy(location) /\ Truthy(remark)
          THEN " - " \o Format(remark) \o " (" \o Format(location) \o ")"
          ELSE IF Truthy(remark) THEN " - " \o Format(remark) ELSE "")

\* the if/elif chain over status
status_sentence(status, tracking_num, carrier, location, remark, delivery_date, eta) ==
    CASE Is(status, "Delivered") -> delivered(carrier, delivery_date, location)
      [] Is(status, "OutForDelivery") -> out_for_delivery(carrier, location)
      [] Is(status, "InTransit") -> in_transit(carrier, location, remark, eta)
      [] Is(status, "Exception") -> exception(carrier, location, remark)
      [] Is(status, "PickedUp") -> picked_up(carrier, location)
      [] Is(status, "InfoReceived") -> info_received(carrier)
      [] OTHER -> other_status(status, tracking_num, carrier, location, remark)

_create_summary(s) ==
    LET tn == Get(s, "tracking_number", PyStr("Unknown")) IN
    IF tn.raised THEN tn ELSE
    LET tracking_num == tn.val
        c == _format_carrier(Get(s, "slug", None).val) IN
    IF c.raised THEN c ELSE
    LET carrier == c.val
        status == Get(s, "tag", None).val
        checkpoints == Get(s, "checkpoints", PyList(<<>>)).val
        l == IF Truthy(checkpoints) THEN Index0(checkpoints) ELSE Ok(EmptyDict) IN
    IF l.raised THEN l ELSE
    LET latest == l.val
        loc == Get(latest, "city", PyStr("")) IN
    IF loc.raised THEN loc ELSE
    LET location == loc.val
        remark == Get(latest, "remark", PyStr("")).val
        delivery_date == Get(s, "delivery_date", None).val
        eta == Get(s, "expected_delivery_date", None).val
    IN  Ok(status_sentence(status, tracking_num, carrier, location, remark,
                           delivery_date, eta))

\* get_tracking: "if not data"
could_not_be_retrieved ==
    " Tracking information could not be retrieved. Please verify the tracking number."

\* get_tracking: "isinstance(data, list) and len(data) > 0"
has_shipment(d) == d.t = "list" /\ Len(d.v) > 0

no_shipment_data == "No shipment data found in the response."

\* get_tracking: the "Last updated" line
last_updated(latest_time) ==
    IF Truthy(latest_time) THEN "\n   Last updated: " \o Format(latest_time) ELSE ""

\* a variant of the "Total events" line that a single event does not get
total_events_above_one(event_count) ==
    IF event_count > 1 THEN "\n   Total events: " \o NatStr(event_count) ELSE ""

\* get_tracking: the "Total events" line
total_events(event_count) ==
    IF event_count > 0 THEN "\n   Total events: " \o NatStr(event_count) ELSE ""

\* get_tracking: what follows the call of _create_summary inside the try
post_process(s, text) ==
    LET checkpoints == Get(s, "checkpoints", PyList(<<>>)).val
        first == IF Truthy(checkpoints) THEN Index0(checkpoints) ELSE Ok(EmptyDict) IN
    IF first.raised THEN first ELSE
    LET lt == IF Truthy(checkpoints) THEN Get(first.val, "date", PyStr(""))
              ELSE Ok(PyStr("")) IN
    IF lt.raised THEN lt ELSE
    LET n == PyLen(checkpoints) IN
    IF n.raised THEN n
    ELSE Ok(text \o last_updated(lt.val) \o total_events(n.val))

\* a variant of get_tracking without the except clause: the error leaves
\* the tool
on_processing_error_unhandled(msg) == [pc |-> "escaped", result |-> None]

\* get_tracking's except clause: the error becomes the returned text
on_processing_error(msg) ==
    [pc |-> "done", result |-> PyStr("Error processing tracking data: " \o msg)]


-----------------------------------------------------------------------------
(* The inputs: tracking numbers, and the bodies the provider may answer    *)
(* with.  A dict is built from one optional entry per key.                 *)

TrackingNumbers == {"TN1", ""}

Optional(key, values) == {<<>>} \cup {key :> x : x \in values}

KnownTags ==
    {"Delivered", "OutForDelivery", "InTransit", "Exception", "PickedUp",
     "InfoReceived"}
Slugs == {"ups", "dhl", "fedex"}

\* the checkpoint records a list may start with, and the older ones after it
LatestCheckpoints ==
    {PyDict(c @@ r @@ d) :
        c \in Optional("city", {PyStr(""), PyStr("Reno")}),
        r \in Optional("remark", {PyStr("Departed facility")}),
        d \in Optional("date", {PyStr(""), PyStr("2024-01-05T10:00")})}
FullCheckpoint ==
    PyDict(("city" :> PyStr("Reno")) @@ ("remark" :> PyStr("Departed facility"))
             @@ ("date" :> PyStr("2024-01-05T10:00")))
OlderCheckpoint == PyDict(("city" :> PyStr("Waco")) @@ ("date" :> PyStr("2024-01-04T08:00")))

\* the sequence of n copies of x
RECURSIVE Repeat(_, _)
Repeat(x, n) == IF n = 0 THEN <<>> ELSE <<x>> \o Repeat(x, n - 1)

\* checkpoints as the data model has them: missing, or a list of records,
\* newest first, of up to MaxCheckpoints events
CheckpointsEntries ==
    {<<>>}
      \cup {"checkpoints" :> PyList(<<>>)}
      \cup {"checkpoints" :> PyList(<<c>>) : c \in LatestCheckpoints}
      \cup {"checkpoints" :> PyList(<<c>> \o Repeat(OlderCheckpoint, n)) :
               c \in {FullCheckpoint, EmptyDict}, n \in 1..(MaxCheckpoints - 1)}

\* checkpoints of another shape: null, a number, a string, a mapping, a list
\* that starts with null
OddCheckpointsEntries ==
    {"checkpoints" :> x :
        x \in {None, PyInt(0), PyInt(5), PyStr("none"), PyDict("count" :> PyInt(0)),
               PyList(<<None>>)}}

\* records with a status tag
TaggedShipments ==
    {PyDict(t @@ g @@ n @@ d @@ e @@ c) :
        t \in {"tag" :> PyStr(g) : g \in KnownTags \cup {"CustomsHold"}},
        g \in Optional("slug", {PyStr("")} \cup {PyStr(x) : x \in Slugs}),
        n \in Optional("tracking_number", {PyStr("TN1")}),
        d \in Optional("delivery_date", {PyStr("2024-01-05")}),
        e \in Optional("expected_delivery_date", {PyStr("2024-02-01")}),
        c \in CheckpointsEntries}

\* records whose status tag is missing, null or empty
UntaggedShipments ==
    {PyDict(t @@ g @@ n @@ c) :
        t \in Optional("tag", {None, PyStr("")}),
        g \in Optional("slug", {None, PyStr("ups")}),
        n \in Optional("tracking_number", {None, PyStr("TN1")}),
        c \in CheckpointsEntries}

\* records with a field of an unexpected shape
OddShipments ==
    {PyDict(t @@ g @@ c) :
        t \in Optional("tag", {PyStr("InTransit")}),
        g \in {"slug" :> PyStr("ups"), "slug" :> PyInt(5)},
        c \in OddCheckpointsEntries \cup {<<>>}}

\* the Delivered record of the specification's example
DeliveredExample ==
    PyDict(("tag" :> PyStr("Delivered")) @@ ("slug" :> PyStr("ups"))
        @@ ("delivery_date" :> PyStr("2024-01-05"))
        @@ ("checkpoints" :> PyList(<<PyDict(("city" :> PyStr("Austin"))
                @@ ("date" :> PyStr("2024-01-05T10:00")))>>)))

Shipments ==
    TaggedShipments \cup UntaggedShipments \cup OddShipments \cup {DeliveredExample}

OtherShipment == PyDict("tag" :> PyStr("Delivered"))

\* what a response body may start with when it is a list
FirstElements ==
    Shipments \cup {None, PyBool(TRUE), PyInt(5), PyStr("x"), PyList(<<>>)}

Bodies ==
    {None, PyBool(TRUE), PyBool(FALSE), PyInt(0), PyInt(5), PyStr(""),
     PyStr("ok"), EmptyDict, PyDict("error" :> PyStr("bad")), PyList(<<>>)}
      \cup {PyList(<<f>> \o Repeat(OtherShipment, n)) :
               f \in FirstElements, n \in 0..(MaxShipments - 1)}

-----------------------------------------------------------------------------
(* The state machine: one invocation of get_tracking after another.        *)

Init ==
    /\ pc = "idle"
    /\ tracking_number = ""
    /\ outcome = "none"
    /\ data = None
    /\ shipment = None
    /\ summary = ""
    /\ exc = ""
    /\ result = None
    /\ requests = 0
    /\ ran = {}

\* the host calls get_tracking(tracking_number)
Call ==
    /\ pc = "idle"
    /\ \E tn \in TrackingNumbers : tracking_number' = tn
    /\ pc' = "request"
    /\ UNCHANGED <<outcome, data, shipment, summary, exc, result, requests, ran>>

\* make_nws_request: client.post is issued
Post ==
    /\ pc = "request"
    /\ requests' = requests + 1
    /\ pc' = "awaiting"
    /\ ran' = ran \cup {"fetch"}
    /\ UNCHANGED <<tracking_number, outcome, data, shipment, summary, exc, result>>

\* make_nws_request: post, raise_for_status or json raises; the except
\* clause returns None
RequestFails ==
    /\ pc = "awaiting"
    /\ \E cause \in FailureCauses :
          /\ outcome' = cause
          /\ pc' = on_request_error(cause).pc
          /\ data' = on_request_error(cause).data
    /\ UNCHANGED <<tracking_number, shipment, summary, exc, result, requests, ran>>

\* make_nws_request: the response is 2xx and its body parses
RequestReturns ==
    /\ pc = "awaiting"
    /\ \E body \in Bodies : data' = body
    /\ outcome' = "parsed"
    /\ pc' = "resolved"
    /\ UNCHANGED <<tracking_number, shipment, summary, exc, result, requests, ran>>

\* get_tracking: "if not data: return ..."
CheckData ==
    /\ pc = "resolved"
    /\ IF ~Truthy(data)
       THEN pc' = "done" /\ result' = PyStr(could_not_be_retrieved)
       ELSE pc' = "extract" /\ result' = result
    /\ UNCHANGED <<tracking_number, outcome, data, shipment, summary, exc, requests, ran>>

\* get_tracking: the first record is taken, or the no-data text returned
Extract ==
    /\ pc = "extract"
    /\ IF has_shipment(data)
       THEN /\ shipment' = Index0(data).val
            /\ pc' = "summary"
            /\ ran' = ran \cup {"extract"}
            /\ result' = result
       ELSE /\ pc' = "done"
            /\ result' = PyStr(no_shipment_data)
            /\ UNCHANGED <<shipment, ran>>
    /\ UNCHANGED <<tracking_number, outcome, data, summary, exc, requests>>

\* get_tracking: summary = _create_summary(shipment)
Summarize ==
    /\ pc = "summary"
    /\ LET r == _create_summary(shipment) IN
         IF r.raised
         THEN pc' = "except" /\ exc' = r.val /\ summary' = summary
         ELSE pc' = "post" /\ summary' = r.val /\ exc' = exc
    /\ ran' = ran \cup {"summarize"}
    /\ UNCHANGED <<tracking_number, outcome, data, shipment, result, requests>>

\* get_tracking: the timestamp and event count are added and the text returned
PostProcess ==
    /\ pc = "post"
    /\ LET r == post_process(shipment, summary) IN
         IF r.raised
         THEN pc' = "except" /\ exc' = r.val /\ UNCHANGED <<summary, result>>
         ELSE pc' = "done" /\ summary' = r.val /\ result' = PyStr(r.val) /\ exc' = exc
    /\ ran' = ran \cup {"postprocess"}
    /\ UNCHANGED <<tracking_number, outcome, data, shipment, requests>>

\* get_tracking: "except Exception as e"
Except ==
    /\ pc = "except"
    /\ pc' = on_processing_error(exc).pc
    /\ result' = on_processing_error(exc).result
    /\ UNCHANGED <<tracking_number, outcome, data, shipment, summary, exc, requests, ran>>

\* the string goes back to the host; nothing of the invocation is kept
Return ==
    /\ pc = "done"
    /\ pc' = "idle"
    /\ tracking_number' = ""
    /\ outcome' = "none"
    /\ data' = None
    /\ shipment' = None
    /\ summary' = ""
    /\ exc' = ""
    /\ result' = None
    /\ requests' = 0
    /\ ran' = {}

Next ==
    \/ Call
    \/ Post
    \/ RequestFails
    \/ RequestReturns
    \/ CheckData
    \/ Extract
    \/ Summarize
    \/ PostProcess
    \/ Except
    \/ Return

Spec == Init /\ [][Next]_vars

-----------------------------------------------------------------------------
(* Vocabulary of the properties: text predicates, and the fields of a      *)
(* shipment record as the specification names them.                        *)

StartsWith(s, p) == Len(s) >= Len(p) /\ SubSeq(s, 1, Len(p)) = p
EndsWith(s, p) == Len(s) >= Len(p) /\ SubSeq(s, Len(s) - Len(p) + 1, Len(s)) = p
Contains(s, p) ==
    \E i \in 1..(Len(s) - Len(p) + 1) : SubSeq(s, i, i + Len(p) - 1) = p

\* the text of a field: "" when the key is missing, null or not a string
FieldText(d, key) ==
    IF d.t = "dict" /\ key \in DOMAIN d.v /\ d.v[key].t = "str" THEN d.v[key].v
    ELSE ""

\* the key is missing, null or a string
TextOrAbsent(d, key) == key \notin DOMAIN d.v \/ d.v[key].t \in {"NoneType", "str"}

\* the checkpoints of a record: missing or a sequence whose first element,
\* if any, is a mapping
CheckpointsAbsent(s) == "checkpoints" \notin DOMAIN s.v \/ s.v["checkpoints"] = PyList(<<>>)
CheckpointsPresent(s) ==
    /\ "checkpoints" \in DOMAIN s.v
    /\ s.v["checkpoints"].t = "list"
    /\ s.v["checkpoints"].v # <<>>
    /\ s.v["checkpoints"].v[1].t = "dict"
CheckpointsNull(s) == "checkpoints" \in DOMAIN s.v /\ s.v["checkpoints"] = None

\* a shipment record of the data model, its checkpoints apart
Record(s) ==
    /\ s.t = "dict"
    /\ TextOrAbsent(s, "slug")
    /\ TextOrAbsent(s, "tag")

LatestCheckpoint(s) == IF CheckpointsPresent(s) THEN s.v["checkpoints"].v[1] ELSE EmptyDict
LatestCity(s) == FieldText(LatestCheckpoint(s), "city")
LatestRemark(s) == FieldText(LatestCheckpoint(s), "remark")
LatestDate(s) == FieldText(LatestCheckpoint(s), "date")
EventCount(s) == IF CheckpointsPresent(s) THEN Len(s.v["checkpoints"].v) ELSE 0

\* the carrier name the specification asks for
UpperCased == [ups |-> "UPS", dhl |-> "DHL", fedex |-> "FEDEX"]
CarrierName(s) ==
    IF FieldText(s, "slug") = "" THEN "Unknown Carrier"
    ELSE UpperCased[FieldText(s, "slug")]

\* the text t when the field x is non-empty, nothing otherwise
With(x, t) == IF x = "" THEN "" ELSE t

\* get_tracking has returned; _create_summary has returned
Returned == pc = "done" /\ result.t = "str"
SummaryMade == pc = "post"


-----------------------------------------------------------------------------
(* The properties.                                                         *)

\* C1: get_tracking is total.  Whatever the fetch outcome and whatever the
\* shape of the body and of its first element, no exception escapes to the
\* host: the invocation is always at a position of get_tracking that has a
\* next step, until it ends with exactly one string as its result.
C1_Total ==
    /\ pc # "escaped"
    /\ pc = "done" => result.t = "str"
    /\ pc # "done" => result = None
    /\ pc \in {"idle", "request", "awaiting", "resolved", "extract", "summary",
               "post", "except", "done"}

\* a non-string slug raised inside _create_summary, and a string came back
C1_Witness ==
    /\ Returned
    /\ shipment.t = "dict"
    /\ "slug" \in DOMAIN shipment.v
    /\ shipment.v["slug"].t = "int"
    /\ result.v = "Error processing tracking data: 'int' object has no attribute 'upper'"

\* C2: when the fetch yields Absent, for whatever cause, the result is
\* exactly the could-not-be-retrieved sentence, with no character before or
\* after it.
C2_ExactAbsentText ==
    (pc = "done" /\ outcome \in FailureCauses) =>
        result = PyStr("Tracking information could not be retrieved. Please verify the tracking number.")

\* C3: when the parsed body is present but is an empty sequence or not a
\* sequence at all, the result is exactly the no-shipment-data sentence.
C3_NoShipmentText ==
    (pc = "done" /\ outcome = "parsed" /\ data # None
        /\ (data.t # "list" \/ data.v = <<>>)) =>
        result = PyStr("No shipment data found in the response.")

\* C4: for a Delivered record the output begins, from its first character,
\* with "Delivered via {CARRIER}", then " on {deliveryDate}" iff the date
\* is non-empty, then " at {latestCity}" iff the latest city is non-empty;
\* the example record gives "Delivered via UPS on 2024-01-05 at Austin" and
\* the lines "Last updated: 2024-01-05T10:00" and "Total events: 1".
C4_DeliveredBegins ==
    /\ (Returned /\ Record(shipment) /\ FieldText(shipment, "tag") = "Delivered"
          /\ (CheckpointsAbsent(shipment) \/ CheckpointsPresent(shipment))) =>
          StartsWith(result.v,
              "Delivered via " \o CarrierName(shipment)
                \o With(FieldText(shipment, "delivery_date"),
                        " on " \o FieldText(shipment, "delivery_date"))
                \o With(LatestCity(shipment), " at " \o LatestCity(shipment)))
    /\ (Returned /\ shipment = DeliveredExample) =>
          result.v = "Delivered via UPS on 2024-01-05 at Austin\n   Last updated: 2024-01-05T10:00\n   Total events: 1"

\* the InTransit record of the specification's example
C5_Shipment ==
    PyDict(("tag" :> PyStr("InTransit")) @@ ("slug" :> PyStr("dhl"))
        @@ ("expected_delivery_date" :> PyStr("2024-02-01"))
        @@ ("checkpoints" :> PyList(<<PyDict(("city" :> PyStr("Reno"))
                @@ ("remark" :> PyStr("Departed facility")))>>)))

\* C5: for an InTransit record the summary is "In transit via {CARRIER}",
\* then ", currently in {latestCity}" iff the city is non-empty, then
\* " - {latestRemark}" iff the remark is non-empty, then a new line
\* "   Expected delivery: {eta}" iff the expected date is non-empty; the
\* example record gives exactly that text followed only by the
\* "Total events: 1" line.
C5_InTransit ==
    /\ (SummaryMade /\ Record(shipment) /\ FieldText(shipment, "tag") = "InTransit") =>
          summary = "In transit via " \o CarrierName(shipment)
                      \o With(LatestCity(shipment), ", currently in " \o LatestCity(shipment))
                      \o With(LatestRemark(shipment), " - " \o LatestRemark(shipment))
                      \o With(FieldText(shipment, "expected_delivery_date"),
                              "\n   Expected delivery: "
                                \o FieldText(shipment, "expected_delivery_date"))
    /\ (Returned /\ shipment = C5_Shipment) =>
          result.v = "In transit via DHL, currently in Reno - Departed facility\n   Expected delivery: 2024-02-01\n   Total events: 1"

\* the example record has been summarised and returned
C5_Witness == Returned /\ shipment = C5_Shipment

\* the words each known status opens its sentence with
Opening ==
    [Delivered |-> "Delivered via ", OutForDelivery |-> "Out for delivery via ",
     InTransit |-> "In transit via ", Exception |-> "Exception via ",
     PickedUp |-> "Picked up via ", InfoReceived |-> "Shipment information received by "]

\* C6: for every known statusTag and every slug that is a string or absent,
\* the summary carries the formatted carrier name right after the opening
\* words of the status: the upper-cased slug, or "Unknown Carrier" when the
\* slug is absent or empty; the raw slug does not occur in it, and the
\* returned output carries the same name.
C6_Carrier ==
    /\ (SummaryMade /\ Record(shipment) /\ FieldText(shipment, "tag") \in KnownTags) =>
          /\ \E lead \in {"", " "} :
                StartsWith(summary, lead \o Opening[FieldText(shipment, "tag")]
                                      \o CarrierName(shipment))
          /\ FieldText(shipment, "slug") # "" =>
                ~Contains(summary, FieldText(shipment, "slug"))
          /\ FieldText(shipment, "slug") = "fedex" => Contains(summary, "FEDEX")
    /\ (Returned /\ Record(shipment) /\ FieldText(shipment, "tag") \in KnownTags
          /\ (CheckpointsAbsent(shipment) \/ CheckpointsPresent(shipment))) =>
          Contains(result.v, CarrierName(shipment))

\* a known status with the slug "fedex" has been summarised
C6_Witness ==
    /\ SummaryMade
    /\ FieldText(shipment, "tag") = "OutForDelivery"
    /\ FieldText(shipment, "slug") = "fedex"
    /\ Contains(summary, "via FEDEX")

\* C7: when the checkpoints of the record are missing, null or empty, the
\* output is the status sentence alone: no error text, no "Last updated"
\* line and no "Total events" line.
C7_NoCheckpoints ==
    (Returned /\ Record(shipment)
        /\ (CheckpointsAbsent(shipment) \/ CheckpointsNull(shipment))) =>
        /\ ~StartsWith(result.v, "Error processing tracking data")
        /\ result.v = _create_summary(shipment).val
        /\ ~Contains(result.v, "Last updated")
        /\ ~Contains(result.v, "Total events")

\* the label a record's tracking number is rendered as
TrackingLabel(s) ==
    IF "tracking_number" \notin DOMAIN s.v THEN "Unknown"
    ELSE FieldText(s, "tracking_number")

C9_PostProcessing ==
    (Returned /\ Record(shipment) /\ CheckpointsPresent(shipment)) =>
        /\ result.v = _create_summary(shipment).val
                        \o With(LatestDate(shipment),
                                "\n   Last updated: " \o LatestDate(shipment))
                        \o "\n   Total events: " \o NatStr(EventCount(shipment))
        /\ EventCount(shipment) = Len(shipment.v["checkpoints"].v)
        /\ ~Contains(_create_summary(shipment).val, "Last updated")
        /\ Contains(result.v, "Last updated: ") <=> LatestDate(shipment) # ""

\* an InfoReceived record with two checkpoints and a latest date returned
C9_Witness ==
    /\ Returned
    /\ FieldText(shipment, "tag") = "InfoReceived"
    /\ EventCount(shipment) = 2
    /\ EndsWith(result.v, "\n   Last updated: 2024-01-05T10:00\n   Total events: 2")

\* C10: an invocation issues exactly one request, and never a second one
\* after a failure; the request is resolved before any extraction or
\* formatting step; and extraction, classification and post-processing run
\* only on a body that is a non-empty sequence.
C10_OneRequestGatesAll ==
    /\ requests <= 1
    /\ pc \notin {"idle", "request"} => requests = 1
    /\ outcome \in FailureCauses => (requests = 1 /\ data = None /\ pc \in {"resolved", "done"})
    /\ (pc \in {"extract", "summary", "post", "except"}
          \/ ran \cap {"extract", "summarize", "postprocess"} # {}) =>
          (outcome = "parsed" /\ "fetch" \in ran)
    /\ (pc \in {"summary", "post", "except"}
          \/ ran \cap {"extract", "summarize", "postprocess"} # {}) =>
          (data.t = "list" /\ data.v # <<>>)

\* a failed request ended the invocation with one request issued
C10_Witness ==
    /\ pc = "done"
    /\ outcome = "timeout"
    /\ requests = 1
    /\ ran = {"fetch"}


=============================================================================
